---- MODULE Spec2Model ----
(***************************************************************************)
(* Branded lifetimes (src/branded/src/lib.rs) and the FastVec consumer of  *)
(* the brand (src/branded/examples/array-index.rs).                        *)
(*                                                                         *)
(* A lifetime is modelled by a natural number, its identity. The borrow    *)
(* checker compares lifetimes of an invariant parameter for equality, so   *)
(* a call that does not type-check is a call the program never makes: it   *)
(* is a guard of the action. Idx and Brand are Copy types: equal values    *)
(* are interchangeable, and the values user code holds form a bag.         *)
(***************************************************************************)
EXTENDS Integers, Sequences, FiniteSets, Bags

VARIABLES inv, stack, handles, brands, lastOp

vars == <<inv, stack, handles, brands, lastOp>>

(* ------------------------------ bounds -------------------------------- *)

\* Brand::new invocations in one run
MaxInv == 2
\* values user code holds at once: Idx handles, and the Brand values it
\* copied or default-constructed
MaxHeld == 2

(* ------------------------------ values -------------------------------- *)

\* 'static: the lifetime every caller can name, the identity of no scope
Static == 0

\* the unit value () a callback of type WithBrand<()> returns
Unit == 0

\* no value yet: Brand::new has not returned
NoRet == 0 - 1

\* an outcome of undefined behaviour that is no element of the vector
Trap == 0 - 2

\* vec![0, 1, 2, 3] of main
Example == <<0, 1, 2, 3>>

\* the vectors handed to FastVec::new: the empty one, one whose elements
\* differ from their positions, and the example's
Vecs == {<<>>, <<5, 6>>, Example}

Elems == UNION {{v[k] : k \in 1..Len(v)} : v \in Vecs}

\* raw indices given to make_idx of a vector: those in range, len itself
\* and one beyond
RawIdx(inner) == 0..(Len(inner) + 1)

MaxIdx == Len(Example) + 1

\* what a user callback of Brand::new returns
RetVals == {Unit, 1}

\* Option<Idx<'b>>
None == [some |-> FALSE]

\* placeholders of the record of the operation last run
NoBrand == [id |-> Static, origin |-> 0]

NoHandle == [idx |-> 0, b |-> NoBrand, issuer |-> 0, raw |-> 0]

IdleOp(name) ==
    [op |-> name, v |-> 0, i |-> 0, some |-> FALSE, res |-> NoRet,
     h |-> NoHandle, b |-> NoBrand]

(* --------------------------- lib.rs: Brand ---------------------------- *)

\* the identities already given to a scope
UsedIds == {inv[k].b.id : k \in 1..Len(inv)}

\* The callback is `for<'b> FnOnce(Brand<'b>) -> R`: its body is checked
\* against a lifetime 'b that is none of the lifetimes in existence, whatever
\* 'brand the caller wrote in Brand::<'brand>::new.
ScopeIdentityOfCaller(used, callerBrand) == callerBrand

ScopeIdentity(used, callerBrand) ==
    CHOOSE id \in 1..(Cardinality(used) + 1) : id \notin used

\* let b = Self { _marker: PhantomData }
NewBrand(id, n) == [id |-> id, origin |-> n]

\* #[derive(Default)]: Brand::<'x>::default() for any 'x the caller can name
DefaultBrand(id) == [id |-> id, origin |-> 0]

\* #[derive(Copy, Clone)] on Brand
CopyBrandValue(b) == b

\* f(b): the one call of the FnOnce callback
InvokeTwice(calls) == calls + 2

Invoke(calls) == calls + 1

\* Brand::new's result is the tail expression f(b)
NewResultUnit(r) == Unit

NewResult(r) == r

\* PhantomData<&'brand mut &'brand ()> is invariant in 'brand: two types
\* Brand<'x>, Brand<'y> unify only when 'x = 'y
SameLifetime(x, y) == x = y

(* ----------------------- array-index.rs: FastVec ---------------------- *)

\* FastVec { inner, b }
NewFastVec(inner, b) == [inner |-> inner, b |-> b]

\* if idx < self.inner.len()
InBoundsInclusive(idx, len) == idx <= len

InBounds(idx, len) == idx < len

\* Some(Idx { idx, _b: self.b })
SomeIdxNext(self, idx) == [some |-> TRUE, idx |-> idx + 1, b |-> self.b]

SomeIdx(self, idx) == [some |-> TRUE, idx |-> idx, b |-> self.b]

\* fn make_idx(&self, idx: usize) -> Option<Idx<'b>>
MakeIdxResult(self, idx) ==
    IF InBounds(idx, Len(self.inner)) THEN SomeIdx(self, idx) ELSE None

\* fn get(&self, idx: Idx<'b>): the argument's type is Idx<'b> with the 'b
\* of self
TypeChecks(hb, selfb) == SameLifetime(hb.id, selfb.id)

\* self.inner.get_unchecked(idx.idx): the element at the 0-based offset; out
\* of bounds it is undefined behaviour, any element or a trap
GetUncheckedOneBased(inner, i) ==
    IF i >= 1 /\ i <= Len(inner) THEN {inner[i]} ELSE Elems \cup {Trap}

GetUnchecked(inner, i) ==
    IF i < Len(inner) THEN {inner[i + 1]} ELSE Elems \cup {Trap}

\* get takes &self: the vector is as it was
AfterGetRemoved(inner, i) ==
    IF i < Len(inner)
    THEN SubSeq(inner, 1, i) \o SubSeq(inner, i + 2, Len(inner))
    ELSE inner

AfterGet(inner, i) == inner

\* #[derive(Clone, Copy)] on Idx
CopyIdxDefaultBrand(h) == [h EXCEPT !.b = DefaultBrand(Static)]

CopyIdxValue(h) == h

(* ------------------------------ scopes -------------------------------- *)

Top == IF stack = <<>> THEN 0 ELSE stack[Len(stack)]

\* the lifetimes the running code can write or have inferred: 'static and
\* the 'b of every callback it is nested in
Nameable == {Static} \cup {inv[stack[k]].b.id : k \in 1..Len(stack)}

\* The structures the running code can reach: FastVec::new moves v into f,
\* f returns nothing, and FastVec<'new_brand, T> fits in no variable outside
\* f, so v lives exactly as long as f runs.
StructuresEscaped(st, iv) ==
    {k \in 1..Len(iv) : iv[k].kind = "fastvec"}

Structures(st, iv) ==
    {st[k] : k \in {j \in 1..Len(st) : iv[st[j]].kind = "fastvec"}}

Usable == Structures(stack, inv)

\* the handles whose type does not mention the lifetime id
Keep(hs, id) == [h \in {x \in DOMAIN hs : x.b.id # id} |-> hs[h]]

\* the brands whose type does not mention the lifetime id
KeepBrands(bs, id) == [b \in {x \in DOMAIN bs : x.id # id} |-> bs[b]]

\* one more value in the bag
With(bag, x) == bag (+) SetToBag({x})

(* ------------------------------ state --------------------------------- *)

\* user code has room for one more value
Room == BagCardinality(handles) + BagCardinality(brands) < MaxHeld

Init ==
    /\ inv = <<>>
    /\ stack = <<>>
    /\ handles = EmptyBag
    /\ brands = EmptyBag
    /\ lastOp = IdleOp("init")

\* Brand::new(f) up to the call f(b): the brand is made and handed to f
BrandNew(callerBrand) ==
    /\ Len(inv) < MaxInv
    /\ LET n == Len(inv) + 1
           b == NewBrand(ScopeIdentity(UsedIds, callerBrand), n)
       IN  /\ inv' = Append(inv, [kind |-> "brand", b |-> b, inner |-> <<>>,
                                  state |-> "Active", calls |-> Invoke(0),
                                  fcalls |-> 0, done |-> 0])
           /\ stack' = Append(stack, n)
    /\ lastOp' = IdleOp("brand_new")
    /\ UNCHANGED <<handles, brands>>

\* FastVec::new(inner, f) up to the call f(v): Brand::new calls the closure
\* with b, the closure builds v = FastVec { inner, b } and calls f(v)
FastVecNew(inner, callerBrand) ==
    /\ Len(inv) < MaxInv
    /\ LET n == Len(inv) + 1
           b == NewBrand(ScopeIdentity(UsedIds, callerBrand), n)
           v == NewFastVec(inner, b)
       IN  /\ inv' = Append(inv, [kind |-> "fastvec", b |-> v.b,
                                  inner |-> v.inner,
                                  state |-> "Active", calls |-> Invoke(0),
                                  fcalls |-> 1, done |-> 0])
           /\ stack' = Append(stack, n)
    /\ lastOp' = IdleOp("fastvec_new")
    /\ UNCHANGED <<handles, brands>>

\* the callback of the innermost scope returns r, and with it Brand::new
\* (and FastVec::new): v is dropped with its vector, and every value of a
\* type that mentions 'b is gone
Return(r) ==
    /\ stack # <<>>
    /\ LET s == Top
       IN  /\ r \in (IF inv[s].kind = "brand" THEN RetVals ELSE {Unit})
           /\ inv' = [inv EXCEPT ![s].state = "Closed",
                                 ![s].done = @ + 1,
                                 ![s].inner = <<>>]
           /\ handles' = Keep(handles, inv[s].b.id)
           /\ brands' = KeepBrands(brands, inv[s].b.id)
    /\ stack' = SubSeq(stack, 1, Len(stack) - 1)
    /\ lastOp' = [IdleOp("return") EXCEPT !.v = Top, !.i = r,
                                           !.res = NewResult(r)]

\* fv.make_idx(i)
MakeIdx(v, i) ==
    /\ v \in Usable
    /\ i \in RawIdx(inv[v].inner)
    /\ LET r == MakeIdxResult(inv[v], i)
           h == [idx |-> r.idx, b |-> r.b, issuer |-> v, raw |-> i]
       IN  IF r.some
           THEN /\ Room
                /\ handles' = With(handles, h)
                /\ lastOp' = [IdleOp("make_idx") EXCEPT !.v = v, !.i = i,
                                  !.some = TRUE, !.h = h]
           ELSE /\ handles' = handles
                /\ lastOp' = [IdleOp("make_idx") EXCEPT !.v = v, !.i = i]
    /\ UNCHANGED <<inv, stack, brands>>

\* fv.get(h), for a handle of the type get asks for
Get(v, h) ==
    /\ v \in Usable
    /\ h \in BagToSet(handles)
    /\ TypeChecks(h.b, inv[v].b)
    /\ \E r \in GetUnchecked(inv[v].inner, h.idx) :
          lastOp' = [IdleOp("get") EXCEPT !.v = v, !.h = h, !.res = r]
    /\ inv' = [inv EXCEPT ![v].inner = AfterGet(@, h.idx)]
    /\ UNCHANGED <<stack, handles, brands>>

\* let h2 = h
CopyIdx(h) ==
    /\ h \in BagToSet(handles)
    /\ Room
    /\ handles' = With(handles, CopyIdxValue(h))
    /\ lastOp' = [IdleOp("copy_idx") EXCEPT !.h = h]
    /\ UNCHANGED <<inv, stack, brands>>

\* let b2 = b, of the brand the callback of scope s was given
CopyScopeBrand(k) ==
    /\ k \in 1..Len(stack)
    /\ Room
    /\ brands' = With(brands, CopyBrandValue(inv[stack[k]].b))
    /\ lastOp' = [IdleOp("copy_scope_brand") EXCEPT !.v = stack[k]]
    /\ UNCHANGED <<inv, stack, handles>>

\* let b2 = b, of a brand user code holds
CopyBrand(b) ==
    /\ b \in BagToSet(brands)
    /\ Room
    /\ brands' = With(brands, CopyBrandValue(b))
    /\ lastOp' = [IdleOp("copy_brand") EXCEPT !.b = b]
    /\ UNCHANGED <<inv, stack, handles>>

\* Brand::default(), at a lifetime the running code can name
BrandDefault(id) ==
    /\ id \in Nameable
    /\ Room
    /\ brands' = With(brands, DefaultBrand(id))
    /\ lastOp' = IdleOp("default")
    /\ UNCHANGED <<inv, stack, handles>>

Next ==
    \/ \E c \in 0..MaxInv : c \in Nameable /\ BrandNew(c)
    \/ \E w \in Vecs, c \in 0..MaxInv : c \in Nameable /\ FastVecNew(w, c)
    \/ \E r \in RetVals : Return(r)
    \/ \E v \in 1..MaxInv, i \in 0..MaxIdx : MakeIdx(v, i)
    \/ \E v \in 1..MaxInv, h \in BagToSet(handles) : Get(v, h)
    \/ \E h \in BagToSet(handles) : CopyIdx(h)
    \/ \E k \in 1..MaxInv : CopyScopeBrand(k)
    \/ \E b \in BagToSet(brands) : CopyBrand(b)
    \/ \E id \in 0..MaxInv : BrandDefault(id)

Spec == Init /\ [][Next]_vars


(* ------------------------------ claims -------------------------------- *)

\* the handles user code holds
Held == BagToSet(handles)

\* every Brand value alive: the brand of each running scope, the brands user
\* code holds, and the brand inside each handle
LiveBrandValues ==
    {inv[stack[k]].b : k \in 1..Len(stack)}
        \cup BagToSet(brands)
        \cup {h.b : h \in Held}

Phase(iv, n) == IF n > Len(iv) THEN "Unbranded" ELSE iv[n].state

\* C1: two invocations of Brand::new never produce the same scope identity,
\* and get of a structure accepts (type-checks) only the handles that the
\* make_idx of that very structure issued.
C1_DistinctScopesRejectForeignHandles ==
    /\ \A m, n \in 1..Len(inv) : m # n => inv[m].b.id # inv[n].b.id
    /\ \A v \in Usable, h \in Held :
          TypeChecks(h.b, inv[v].b) => h.issuer = v
    /\ lastOp.op = "get" => lastOp.h.issuer = lastOp.v

\* two structures built from equal vectors, one nested in the other, each
\* with a handle of its own, and a get on the outer one
C1_Witness ==
    /\ Len(stack) = 2
    /\ inv[1].inner = Example /\ inv[2].inner = Example
    /\ \E g, h \in Held : g.issuer = 1 /\ h.issuer = 2
    /\ lastOp.op = "get" /\ lastOp.v = 1

\* C2: two live Brand values have the same scope identity if and only if
\* they descend from the same Brand::new invocation.
C2_SameIdentityIffSameInvocation ==
    \A x, y \in LiveBrandValues :
        /\ x.id = y.id => x.origin = y.origin
        /\ (x.origin = y.origin /\ x.origin # 0) => x.id = y.id

\* C3: make_idx(i) succeeds for every i < len, and get of a handle returns
\* the element at the raw index the handle was validated for.
C3_RoundTrip ==
    /\ \A v \in Usable, i \in 0..MaxIdx :
          i < Len(inv[v].inner) => MakeIdxResult(inv[v], i).some
    /\ (lastOp.op = "make_idx" /\ lastOp.i < Len(inv[lastOp.v].inner))
          => lastOp.some
    /\ lastOp.op = "get"
          => lastOp.res = inv[lastOp.v].inner[lastOp.h.raw + 1]

\* get(make_idx(3)) on [0,1,2,3] has returned 3, with the handle of index 1
\* at hand
C3_Witness ==
    /\ lastOp.op = "get"
    /\ inv[lastOp.v].inner = Example
    /\ lastOp.h.raw = 3
    /\ lastOp.res = 3
    /\ \E h \in Held : h.raw = 1 /\ h.issuer = lastOp.v

\* C4: make_idx(i) with i >= len returns None and changes nothing: no
\* handle is made, the vector and every scope are as before.
C4_OutOfRangeIsNone ==
    [][(lastOp'.op = "make_idx" /\ lastOp'.i >= Len(inv[lastOp'.v].inner))
          => /\ ~lastOp'.some
             /\ handles' = handles
             /\ inv' = inv
             /\ stack' = stack
             /\ brands' = brands]_vars

\* make_idx(4) on [0,1,2,3] has returned None, two handles being alive
C4_Witness ==
    /\ lastOp.op = "make_idx"
    /\ lastOp.i = 4
    /\ inv[lastOp.v].inner = Example
    /\ ~lastOp.some
    /\ BagCardinality(handles) = 2

\* C5: Brand::new returns the value its callback returned, and has returned
\* it once the callback is over.
C5_ResultPassedThrough ==
    lastOp.op = "return"
        => /\ lastOp.res = lastOp.i
           /\ inv[lastOp.v].state = "Closed"

\* a callback of Brand::new has returned a value that is not the unit
C5_Witness ==
    /\ lastOp.op = "return"
    /\ inv[lastOp.v].kind = "brand"
    /\ lastOp.i = 1
    /\ lastOp.res = 1

\* C6: every invocation of Brand::new has started its callback exactly once,
\* with the one brand of the invocation; the callback runs while the scope
\* is on the call stack and is over when the call has returned.
C6_CallbackOnceAndSynchronous ==
    /\ \A n \in 1..Len(inv) :
          /\ inv[n].calls = 1
          /\ inv[n].b.origin = n
          /\ inv[n].kind = "fastvec" => inv[n].fcalls = 1
          /\ inv[n].state = "Active"
                => inv[n].done = 0 /\ \E k \in 1..Len(stack) : stack[k] = n
          /\ inv[n].state = "Closed"
                => inv[n].done = 1 /\ \A k \in 1..Len(stack) : stack[k] # n
    /\ lastOp.op = "return" => inv[lastOp.v].done = 1

\* one FastVec::new has returned and a second one is running its callback
C6_Witness ==
    /\ Len(inv) = 2
    /\ inv[1].kind = "fastvec" /\ inv[1].state = "Closed"
    /\ inv[2].kind = "fastvec" /\ inv[2].state = "Active"

\* C7: the handles validated for the same index of the same structure are
\* all accepted by its get and all resolve to one element, and the element a
\* get returned is the one every such handle resolves to afterwards.
C7_ValidationIdempotent ==
    /\ \A g, h \in Held :
          (g.issuer = h.issuer /\ g.raw = h.raw)
          => LET v == g.issuer
             IN  /\ v \in Usable
                 /\ TypeChecks(g.b, inv[v].b)
                 /\ TypeChecks(h.b, inv[v].b)
                 /\ GetUnchecked(inv[v].inner, g.idx)
                       = GetUnchecked(inv[v].inner, h.idx)
    /\ lastOp.op = "get"
          => \A h \in Held :
                (h.issuer = lastOp.v /\ h.raw = lastOp.h.raw)
                => GetUnchecked(inv[lastOp.v].inner, h.idx) = {lastOp.res}

\* index 1 of [0,1,2,3] validated twice, and a get of such a handle has
\* returned 1
C7_Witness ==
    /\ lastOp.op = "get" /\ lastOp.h.raw = 1 /\ lastOp.res = 1
    /\ inv[lastOp.v].inner = Example
    /\ CopiesIn(lastOp.h, handles) = 2

\* C8: a copy of a handle or of a brand is one more value equal to the
\* original (same identity, same index, so accepted by the same structures
\* and resolving to the same element); the copy makes no new identity and
\* the original is still held, as it was.
C8_CopyPreservesIdentity ==
    [][/\ lastOp'.op = "copy_idx"
            => /\ handles' = With(handles, lastOp'.h)
               /\ CopiesIn(lastOp'.h, handles) >= 1
               /\ UsedIds' = UsedIds
               /\ inv' = inv
       /\ lastOp'.op = "copy_brand"
            => /\ brands' = With(brands, lastOp'.b)
               /\ CopiesIn(lastOp'.b, brands) >= 1
               /\ UsedIds' = UsedIds
       /\ lastOp'.op = "copy_scope_brand"
            => /\ brands' = With(brands, inv[lastOp'.v].b)
               /\ inv' = inv]_vars

\* a handle of the inner of two nested structures has been copied
C8_Witness ==
    /\ lastOp.op = "copy_idx"
    /\ Len(stack) = 2
    /\ lastOp.h.issuer = 2
    /\ CopiesIn(lastOp.h, handles) = 2

\* C9: every handle that get of a structure accepts carries an index below
\* the structure's length, and no get has read outside the vector.
C9_HandlesInBounds ==
    /\ \A v \in Usable, h \in Held :
          TypeChecks(h.b, inv[v].b) => h.idx < Len(inv[v].inner)
    /\ lastOp.op = "get"
          => /\ lastOp.res # Trap
             /\ \E p \in 1..Len(inv[lastOp.v].inner) :
                   inv[lastOp.v].inner[p] = lastOp.res

\* the last element of a vector has been read through its handle
C9_Witness ==
    /\ lastOp.op = "get"
    /\ inv[lastOp.v].inner = <<5, 6>>
    /\ lastOp.h.idx = 1
    /\ lastOp.res = 6

\* C10: a scope goes Unbranded -> Active -> Closed and never back; make_idx
\* and get act on Active structures only; a Closed scope has no handle.
C10_Lifecycle ==
    [][/\ \A n \in 1..MaxInv :
             /\ Phase(inv, n) = "Unbranded"
                   => Phase(inv', n) \in {"Unbranded", "Active"}
             /\ Phase(inv, n) = "Active"
                   => Phase(inv', n) \in {"Active", "Closed"}
             /\ Phase(inv, n) = "Closed" => Phase(inv', n) = "Closed"
             /\ Phase(inv', n) = "Closed"
                   => \A h \in BagToSet(handles') :
                         h.b.id # inv'[n].b.id /\ h.issuer # n
       /\ lastOp'.op \in {"make_idx", "get"}
             => /\ Phase(inv, lastOp'.v) = "Active"
                /\ Phase(inv', lastOp'.v) = "Active"]_vars

\* a structure has been closed while its handle existed, and a later
\* structure is in use
C10_Witness ==
    /\ Len(inv) = 2
    /\ inv[1].kind = "fastvec" /\ inv[1].state = "Closed"
    /\ inv[2].state = "Active"
    /\ lastOp.op = "get" /\ lastOp.v = 2

====
